---------------------------- MODULE Spec2Model ----------------------------
(***************************************************************************)
(* Chunk reassembly and message framing of the external-app message        *)
(* service (src/src/externalappmsgservice.cpp).                            *)
(*                                                                         *)
(* Bytes are the naturals 0..255.  A QByteArray is a sequence of bytes; a  *)
(* QString is a sequence of Unicode code points.  A byte of m_messageBytes *)
(* that QByteArray::resize() added and no chunk has written yet is         *)
(* indeterminate: it is held as UNINIT until processMessage() reads it,    *)
(* and then takes any value of GarbageBytes.                               *)
(***************************************************************************)
EXTENDS Integers, Sequences, FiniteSets, TLC

VARIABLES
    m_lastMessageCounter,       \* std::optional<quint8>: None or Some(0..255)
    m_messageBytes,             \* QByteArray
    m_numReceivedMessageBytes,  \* qsizetype, no initialiser
    extAppMsgIFace,             \* function-local static QDBusInterface: None or Some(destination)
    crashed,                    \* the process was aborted by assert()
    heapCorrupt,                \* memcpy wrote past the end of m_messageBytes: undefined
                                \* behaviour, after which the model follows the process no further
    numInitialised,             \* m_numReceivedMessageBytes has been assigned
    uninitRead,                 \* m_numReceivedMessageBytes was read before being assigned
    charIsSigned,               \* the build's plain char is signed (implementation-defined)
    outcome,                    \* what the most recent WriteValue call did
    sender,                     \* sender runs: the message being sent and how far it got
    todo,                       \* sender runs: the chunks of it not yet submitted
    pending,                    \* sender runs: the messages still to be sent
    parseInput,                 \* parser runs: the buffer handed to fromBytes
    parseResult                 \* parser runs: what fromBytes returned

vars == <<m_lastMessageCounter, m_messageBytes, m_numReceivedMessageBytes,
          extAppMsgIFace, crashed, heapCorrupt, numInitialised, uninitRead,
          charIsSigned, outcome, sender, todo, pending, parseInput, parseResult>>

\* An optional value is a sequence of at most one element.
None == <<>>
Some(x) == <<x>>
UNINIT == -1

\* '\n' and '.', the two characters the parser names.
NL == 10
DOT == 46

\* "interfaces", "Interfaces", "interface", "interfacesFoo", "foo.bar", "fooBar1",
\* "com.example.App" as byte strings.
STR_interfaces == <<105, 110, 116, 101, 114, 102, 97, 99, 101, 115>>
STR_Interfaces == <<73, 110, 116, 101, 114, 102, 97, 99, 101, 115>>
STR_interface == <<105, 110, 116, 101, 114, 102, 97, 99, 101>>
STR_interfacesFoo == STR_interfaces \o <<70, 111, 111>>
STR_foo_bar == <<102, 111, 111, 46, 98, 97, 114>>
STR_fooBar1 == <<102, 111, 111, 66, 97, 114, 49>>
STR_com_example_App == <<99, 111, 109, 46, 101, 120, 97, 109, 112, 108, 101, 46, 65, 112, 112>>
STR_e_acute == <<195, 169>>

(***************************************************************************)
(* Bounds.                                                                 *)
(***************************************************************************)
MaxParseLen == 4      \* longest exhaustively enumerated parser input
MaxSize == 3          \* largest declared message size in free runs
MaxBody == 1          \* longest chunk body in free runs
MaxReceived == 4      \* cap on m_numReceivedMessageBytes in free runs
MaxMsgLen == 4        \* longest message whose every chunking is scripted

(***************************************************************************)
(* Qt helpers.                                                             *)
(***************************************************************************)

\* QByteArray::mid(pos, len) for 0 <= pos; len < 0 means "to the end".
Mid(bytes, pos, len) ==
    IF pos >= Len(bytes) THEN <<>>
    ELSE LET last == IF len < 0 \/ pos + len > Len(bytes) THEN Len(bytes) ELSE pos + len
         IN SubSeq(bytes, pos + 1, last)

\* QString(QByteArray) is QString::fromUtf8 (Qt 6: embedded NULs are kept).
\* One- and two-byte sequences are decoded; a byte that starts no valid
\* sequence becomes U+FFFD and decoding resumes at the next byte.
RECURSIVE fromUtf8(_)
fromUtf8(bytes) ==
    IF bytes = <<>> THEN <<>>
    ELSE LET b == bytes[1]
         IN IF b < 128 THEN <<b>> \o fromUtf8(Tail(bytes))
            ELSE IF /\ b >= 194 /\ b <= 223
                    /\ Len(bytes) >= 2 /\ bytes[2] >= 128 /\ bytes[2] <= 191
                 THEN <<(b - 192) * 64 + (bytes[2] - 128)>> \o fromUtf8(Tail(Tail(bytes)))
            ELSE <<65533>> \o fromUtf8(Tail(bytes))

\* QChar::isLetterOrNumber(): Unicode categories L* and N*, for U+0000..U+00FF.
isLetterOrNumber(ch) ==
    \/ ch \in 48..57
    \/ ch \in 65..90
    \/ ch \in 97..122
    \/ ch \in {170, 178, 179, 181, 185, 186, 188, 189, 190}
    \/ ch \in 192..214
    \/ ch \in 216..246
    \/ ch \in 248..255

\* QString::startsWith(prefix), case sensitive.
startsWith(str, prefix) ==
    /\ Len(str) >= Len(prefix)
    /\ SubSeq(str, 1, Len(prefix)) = prefix

(***************************************************************************)
(* Message frame parser.                                                   *)
(***************************************************************************)
\* enum class PartIndices
SOURCE == 0
DESTINATION == 1
PAYLOAD == 2
LAST_INDEX_Three == 2 + 1

LAST_INDEX == 2

\* The predicates handed to checkString: TRUE for a character that is not allowed.
SourcePredicate(ch) == ~(isLetterOrNumber(ch) \/ ch = DOT)

DestinationPredicate_AllowsDot(ch) == ~(isLetterOrNumber(ch) \/ ch = DOT)

DestinationPredicate(ch) == ~isLetterOrNumber(ch)

\* checkString(str, name, predicate): FALSE iff some character satisfies the
\* predicate; name stands for the lambda that the caller passes along with it.
checkString(str, name) ==
    ~(\E i \in 1..Len(str) :
          IF name = "source" THEN SourcePredicate(str[i]) ELSE DestinationPredicate(str[i]))

\* A default-constructed MessageDetails, plus the return value of fromBytes.
NewMessageDetails ==
    [ok |-> FALSE, m_source |-> <<>>, m_destination |-> <<>>, m_payload |-> <<>>,
     error |-> "none"]

\* The for loop of fromBytes and the code after it.
RECURSIVE fromBytesLoop(_, _, _, _, _)
fromBytesLoop(bytes, position, curPartIndex, substringStartPosition, md) ==
    IF position < Len(bytes) /\ curPartIndex < LAST_INDEX
    THEN IF bytes[position + 1] = NL
         THEN LET substring ==
                      fromUtf8(Mid(bytes, substringStartPosition,
                                   position - substringStartPosition))
              IN IF curPartIndex = SOURCE
                 THEN IF ~checkString(substring, "source")
                      THEN [md EXCEPT !.error = "source"]
                      ELSE fromBytesLoop(bytes, position + 1, curPartIndex + 1, position + 1,
                                         [md EXCEPT !.m_source = substring])
                 ELSE IF ~checkString(substring, "destination")
                      THEN [md EXCEPT !.error = "destination"]
                      ELSE IF startsWith(substring, STR_interfaces)
                      THEN [md EXCEPT !.error = "reserved"]
                      ELSE fromBytesLoop(bytes, position + 1, curPartIndex + 1, position + 1,
                                         [md EXCEPT !.m_destination = substring])
         ELSE fromBytesLoop(bytes, position + 1, curPartIndex, substringStartPosition, md)
    ELSE IF curPartIndex # LAST_INDEX
         THEN [md EXCEPT !.error = "truncated"]
         ELSE [md EXCEPT !.ok = TRUE, !.m_payload = Mid(bytes, substringStartPosition, -1)]

fromBytes_EndTerminates(bytes) ==
    LET md == fromBytesLoop(bytes, 0, 0, 0, NewMessageDetails)
    IN IF md.error = "truncated"
       THEN fromBytesLoop(bytes \o <<NL>>, 0, 0, 0, NewMessageDetails)
       ELSE md

fromBytes(bytes) == fromBytesLoop(bytes, 0, 0, 0, NewMessageDetails)

(***************************************************************************)
(* Chunk header decoding.                                                  *)
(***************************************************************************)

\* Bitwise OR of two naturals.
RECURSIVE BitOr(_, _)
BitOr(a, b) ==
    IF a = 0 THEN b
    ELSE IF b = 0 THEN a
    ELSE (IF a % 2 = 1 \/ b % 2 = 1 THEN 1 ELSE 0) + 2 * BitOr(a \div 2, b \div 2)

\* The low 16 bits of a plain char holding byte b after promotion to int: a
\* signed char of 128 or more is negative and sign-extends.  (The results of
\* the expressions below are converted to quint16, which keeps these bits only.)
charToInt(b, isSigned) ==
    IF isSigned /\ b >= 128 THEN 65536 - 256 + b ELSE b

\* The low 16 bits of the int expression  lo | ((quint16)(hi) << 8).
headerWord(lo, hi, isSigned) ==
    BitOr(charToInt(lo, isSigned), (charToInt(hi, isSigned) * 256) % 65536)

\* quint16 chunkOffset = chunk[1] | ((quint16)(chunk[2]) << 8);
decodeChunkOffset(chunk, isSigned) ==
    headerWord(chunk[2], chunk[3], isSigned) % 65536

\* quint16 messageSize = (chunk[3] | ((quint16)(chunk[4]) << 8)) + 1;
decodeMessageSize(chunk, isSigned) ==
    (headerWord(chunk[4], chunk[5], isSigned) + 1) % 65536

(***************************************************************************)
(* Chunk reassembler.  The operators work on a record of the object's      *)
(* fields (and the bookkeeping that goes with them); the actions install   *)
(* the record they compute.                                                *)
(***************************************************************************)

\* What a WriteValue call did, as far as an observer can tell.
NoOutcome ==
    [path |-> "none",            \* undersized, stored, decodeFailed, delivered, aborted
     priorInProgress |-> FALSE,  \* a message was in progress when the chunk arrived
     isNewMessage |-> FALSE,     \* the chunk was classified as starting a new message
     boundsViolated |-> FALSE,   \* the assert condition was false
     completed |-> FALSE,        \* the chunk made the byte count reach messageSize
     processed |-> None,         \* the buffer handed to fromBytes
     destination |-> None,       \* the destination fromBytes decoded
     call |-> None,              \* the router call: service, source, payload
     replyIsError |-> FALSE,     \* the router replied with an error message
     messageSize |-> 0,          \* the chunk's messageSize, as decoded
     received |-> 0,             \* m_numReceivedMessageBytes at the completion test
     gaps |-> FALSE]             \* the buffer was processed with bytes no chunk had written

discardReceivedData_KeepsCount(s) ==
    [s EXCEPT !.lmc = None, !.bytes = <<>>]

discardReceivedData_KeepsBytes(s) ==
    [s EXCEPT !.lmc = None, !.num = 0, !.numInit = TRUE]

\* void discardReceivedData()
discardReceivedData(s) ==
    [s EXCEPT !.lmc = None, !.bytes = <<>>, !.num = 0, !.numInit = TRUE]

resize_Reallocates(bytes, size) ==
    [i \in 1..size |-> UNINIT]

\* QByteArray::resize(size): a shrink keeps the prefix, the bytes a growth adds
\* are uninitialised.
resize(bytes, size) ==
    IF size <= Len(bytes) THEN SubSeq(bytes, 1, size)
    ELSE bytes \o [i \in 1..(size - Len(bytes)) |-> UNINIT]

\* std::memcpy(dest.data() + offset, src, n), for the part that lies inside dest.
memcpy(dest, offset, src, n) ==
    [i \in 1..Len(dest) |->
        IF i > offset /\ i <= offset + n THEN src[i - offset] ELSE dest[i]]

\* The positions of a buffer that no chunk has written.
UninitPositions(bytes) == {i \in 1..Len(bytes) : bytes[i] = UNINIT}

\* A read of the buffer: the unwritten bytes take the values of garbage.
readBytes(bytes, garbage) ==
    [i \in 1..Len(bytes) |-> IF bytes[i] = UNINIT THEN garbage[i] ELSE bytes[i]]

processMessage_KeepsStateOnError(s, garbage, replyIsError) ==
    LET bytes == readBytes(s.bytes, garbage)
        msgDetails == fromBytes(bytes)
    IN IF ~msgDetails.ok
       THEN [s EXCEPT !.bytes = bytes,
                      !.outcome.path = "decodeFailed",
                      !.outcome.processed = Some(bytes),
                      !.outcome.gaps = (UninitPositions(s.bytes) # {})]
       ELSE LET iface == IF s.iface = None THEN Some(msgDetails.m_destination) ELSE s.iface
                called == [s EXCEPT !.bytes = bytes,
                                    !.iface = iface,
                                    !.outcome.path = "delivered",
                                    !.outcome.processed = Some(bytes),
                                    !.outcome.destination = Some(msgDetails.m_destination),
                                    !.outcome.call = Some([service |-> iface[1],
                                                           source |-> msgDetails.m_source,
                                                           payload |-> msgDetails.m_payload]),
                                    !.outcome.replyIsError = replyIsError,
                                    !.outcome.gaps = (UninitPositions(s.bytes) # {})]
            IN IF replyIsError THEN called ELSE discardReceivedData(called)

processMessage_ForwardsUndecoded(s, garbage, replyIsError) ==
    LET bytes == readBytes(s.bytes, garbage)
        msgDetails == fromBytes(bytes)
        iface == IF s.iface = None THEN Some(msgDetails.m_destination) ELSE s.iface
        called == [s EXCEPT !.iface = iface,
                            !.outcome.path = "delivered",
                            !.outcome.processed = Some(bytes),
                            !.outcome.destination = Some(msgDetails.m_destination),
                            !.outcome.call = Some([service |-> iface[1],
                                                   source |-> msgDetails.m_source,
                                                   payload |-> msgDetails.m_payload]),
                            !.outcome.replyIsError = replyIsError,
                            !.outcome.gaps = (UninitPositions(s.bytes) # {})]
    IN discardReceivedData(called)

\* void processMessage(), with the buffer as read and the router's reply.
processMessage(s, garbage, replyIsError) ==
    LET bytes == readBytes(s.bytes, garbage)
        msgDetails == fromBytes(bytes)
    IN IF ~msgDetails.ok
       THEN [s EXCEPT !.bytes = bytes,
                      !.outcome.path = "decodeFailed",
                      !.outcome.processed = Some(bytes),
                      !.outcome.gaps = (UninitPositions(s.bytes) # {})]
       ELSE LET iface == IF s.iface = None THEN Some(msgDetails.m_destination) ELSE s.iface
                called == [s EXCEPT !.iface = iface,
                                    !.outcome.path = "delivered",
                                    !.outcome.processed = Some(bytes),
                                    !.outcome.destination = Some(msgDetails.m_destination),
                                    !.outcome.call = Some([service |-> iface[1],
                                                           source |-> msgDetails.m_source,
                                                           payload |-> msgDetails.m_payload]),
                                    !.outcome.replyIsError = replyIsError,
                                    !.outcome.gaps = (UninitPositions(s.bytes) # {})]
            IN discardReceivedData(called)

isNewMessage_OnlyWhenPresent(lastMessageCounter, messageCounter) ==
    (lastMessageCounter # None) /\ (lastMessageCounter # Some(messageCounter))

isNewMessage_WhenGreater(lastMessageCounter, messageCounter) ==
    (lastMessageCounter = None) \/ (lastMessageCounter[1] < messageCounter)

isNewMessage_OnlyWhenAbsent(lastMessageCounter, messageCounter) ==
    lastMessageCounter = None

\* bool isNewMessage = (m_lastMessageCounter == std::nullopt)
\*                     || ((*m_lastMessageCounter) != messageCounter);
isNewMessage(lastMessageCounter, messageCounter) ==
    (lastMessageCounter = None) \/ (lastMessageCounter # Some(messageCounter))

\* WriteValue for chunk.size() < 5.
writeUndersized(s) ==
    [discardReceivedData(s) EXCEPT
        !.outcome = [NoOutcome EXCEPT !.path = "undersized",
                                      !.priorInProgress = (s.lmc # None)]]

\* assert(chunkSize <= (messageSize - chunkOffset));
assertHolds(chunk, isSigned) ==
    Len(chunk) - 5 <= decodeMessageSize(chunk, isSigned) - decodeChunkOffset(chunk, isSigned)

writeChunk_CompletesOnEqual(s, chunk, isSigned, abortOnAssert) ==
    LET messageCounter == chunk[1]
        newMessage == isNewMessage(s.lmc, messageCounter)
        s1 == IF newMessage
              THEN [discardReceivedData(s) EXCEPT !.lmc = Some(messageCounter)]
              ELSE s
        chunkOffset == decodeChunkOffset(chunk, isSigned)
        messageSize == decodeMessageSize(chunk, isSigned)
        chunkSize == Len(chunk) - 5
        s2 == [s1 EXCEPT !.num = @ + chunkSize,
                         !.uninitRead = @ \/ ~s1.numInit]
        s3 == [s2 EXCEPT !.bytes = IF Len(@) # messageSize THEN resize(@, messageSize) ELSE @]
        assertOk == assertHolds(chunk, isSigned)
        s4 == [s3 EXCEPT !.bytes = memcpy(@, chunkOffset, SubSeq(chunk, 6, Len(chunk)), chunkSize),
                         !.corrupt = @ \/ (~assertOk /\ chunkSize > 0)]
        seen == [NoOutcome EXCEPT !.path = "stored",
                                  !.priorInProgress = (s.lmc # None),
                                  !.isNewMessage = newMessage,
                                  !.boundsViolated = ~assertOk,
                                  !.completed = (s2.num = messageSize),
                                  !.messageSize = messageSize,
                                  !.received = s2.num]
    IN IF ~assertOk /\ abortOnAssert
       THEN [s3 EXCEPT !.crashed = TRUE, !.outcome = [seen EXCEPT !.path = "aborted"]]
       ELSE [s4 EXCEPT !.outcome = seen]

\* WriteValue from the header decoding up to (not including) the final
\* completion test.  abortOnAssert chooses between the two outcomes of a false
\* assert condition: abort(), or (with NDEBUG) a memcpy that starts or runs past
\* the end of the buffer; memcpy is taken to write the bytes that fall inside
\* the buffer and, if it has any byte to write, to corrupt the heap.
writeChunk(s, chunk, isSigned, abortOnAssert) ==
    LET messageCounter == chunk[1]
        newMessage == isNewMessage(s.lmc, messageCounter)
        s1 == IF newMessage
              THEN [discardReceivedData(s) EXCEPT !.lmc = Some(messageCounter)]
              ELSE s
        chunkOffset == decodeChunkOffset(chunk, isSigned)
        messageSize == decodeMessageSize(chunk, isSigned)
        chunkSize == Len(chunk) - 5
        s2 == [s1 EXCEPT !.num = @ + chunkSize,
                         !.uninitRead = @ \/ ~s1.numInit]
        s3 == [s2 EXCEPT !.bytes = IF Len(@) # messageSize THEN resize(@, messageSize) ELSE @]
        assertOk == assertHolds(chunk, isSigned)
        s4 == [s3 EXCEPT !.bytes = memcpy(@, chunkOffset, SubSeq(chunk, 6, Len(chunk)), chunkSize),
                         !.corrupt = @ \/ (~assertOk /\ chunkSize > 0)]
        seen == [NoOutcome EXCEPT !.path = "stored",
                                  !.priorInProgress = (s.lmc # None),
                                  !.isNewMessage = newMessage,
                                  !.boundsViolated = ~assertOk,
                                  !.completed = (s2.num >= messageSize),
                                  !.messageSize = messageSize,
                                  !.received = s2.num]
    IN IF ~assertOk /\ abortOnAssert
       THEN [s3 EXCEPT !.crashed = TRUE, !.outcome = [seen EXCEPT !.path = "aborted"]]
       ELSE [s4 EXCEPT !.outcome = seen]

\* The object and the process state as one record.
State ==
    [lmc |-> m_lastMessageCounter, bytes |-> m_messageBytes,
     num |-> m_numReceivedMessageBytes, iface |-> extAppMsgIFace,
     crashed |-> crashed, corrupt |-> heapCorrupt, numInit |-> numInitialised,
     uninitRead |-> uninitRead, outcome |-> outcome]

Install(s) ==
    /\ m_lastMessageCounter' = s.lmc
    /\ m_messageBytes' = s.bytes
    /\ m_numReceivedMessageBytes' = s.num
    /\ extAppMsgIFace' = s.iface
    /\ crashed' = s.crashed
    /\ heapCorrupt' = s.corrupt
    /\ numInitialised' = s.numInit
    /\ uninitRead' = s.uninitRead
    /\ outcome' = s.outcome
    /\ UNCHANGED charIsSigned

\* The values an unwritten byte is read as.
GarbageBytes == {10, 97}

\* void WriteValue(QByteArray chunk, QVariantMap)
WriteValue(chunk) ==
    /\ ~crashed /\ ~heapCorrupt
    /\ IF Len(chunk) < 5
       THEN Install(writeUndersized(State))
       ELSE \E abortOnAssert \in (IF assertHolds(chunk, charIsSigned) THEN {FALSE} ELSE BOOLEAN) :
              LET s == writeChunk(State, chunk, charIsSigned, abortOnAssert)
              IN IF s.crashed \/ ~s.outcome.completed
                 THEN Install(s)
                 ELSE \E garbage \in [UninitPositions(s.bytes) -> GarbageBytes],
                         replyIsError \in BOOLEAN :
                        Install(processMessage(s, garbage, replyIsError))

\* PushMessageChrc's constructor: nothing received, the counter uninitialised.
InitObject ==
    /\ m_lastMessageCounter = None
    /\ m_messageBytes = <<>>
    /\ m_numReceivedMessageBytes \in {0, 3}
    /\ extAppMsgIFace = None
    /\ crashed = FALSE
    /\ heapCorrupt = FALSE
    /\ numInitialised = FALSE
    /\ uninitRead = FALSE
    /\ outcome = NoOutcome

(***************************************************************************)
(* Free runs: any chunk at any time.                                       *)
(***************************************************************************)
SeqsUpTo(S, n) == UNION {[1..k -> S] : k \in 0..n}

FreeCounters == {0, 255}
FreeBytes == {10, 97}

FreeChunks ==
    {<<c, off, 0, enc, 0>> \o body :
        c \in FreeCounters, off \in 0..MaxSize, enc \in 0..(MaxSize - 1),
        body \in SeqsUpTo(FreeBytes, MaxBody)}

UndersizedChunks == SeqsUpTo({0}, 4)

\* The sender's side when no sender is modelled.
NoSender ==
    [active |-> FALSE, counter |-> 0, msg |-> None, chunks |-> {}, sent |-> 0,
     inOrder |-> TRUE, afterAbandoned |-> FALSE]

\* Free runs use chunks whose offset and size bytes are all below 128, which
\* both kinds of build decode alike; they are explored for the unsigned build.
Init ==
    /\ InitObject
    /\ charIsSigned = FALSE
    /\ sender = NoSender
    /\ todo = {}
    /\ pending = <<>>
    /\ parseInput = <<>>
    /\ parseResult = None

ReceiveUndersized ==
    /\ \E chunk \in UndersizedChunks : WriteValue(chunk)
    /\ UNCHANGED <<sender, todo, pending, parseInput, parseResult>>

ReceiveChunk ==
    /\ \E chunk \in FreeChunks :
          /\ \/ Some(chunk[1]) # m_lastMessageCounter
             \/ m_numReceivedMessageBytes + Len(chunk) - 5 <= MaxReceived
          /\ WriteValue(chunk)
    /\ UNCHANGED <<sender, todo, pending, parseInput, parseResult>>

Next == ReceiveUndersized \/ ReceiveChunk

Spec == Init /\ [][Next]_vars

(***************************************************************************)
(* Parser runs: fromBytes applied to one buffer.                           *)
(***************************************************************************)

\* UTF-8 of a string of code points below U+0800 (what a sender puts on the wire).
RECURSIVE encodeUtf8(_)
encodeUtf8(str) ==
    IF str = <<>> THEN <<>>
    ELSE (IF str[1] < 128 THEN <<str[1]>>
          ELSE <<192 + (str[1] \div 64), 128 + (str[1] % 64)>>) \o encodeUtf8(Tail(str))

\* The frame body  source '\n' destination '\n' payload.
Frame(source, destination, payload) ==
    encodeUtf8(source) \o <<NL>> \o encodeUtf8(destination) \o <<NL>> \o payload

ParseBytes == {10, 33, 46, 97}

NamedSources == {<<97>>, STR_com_example_App, <<233>>, <<97, 33>>, <<>>}

NamedDestinations ==
    {<<98>>, STR_interfaces, STR_interfacesFoo, STR_Interfaces, STR_interface,
     STR_foo_bar, STR_fooBar1, <<233>>, <<>>}

NamedPayloads == {<<>>, <<10, 0, 255, 10>>}

ParseInputs ==
    SeqsUpTo(ParseBytes, MaxParseLen)
        \cup {Frame(src, dst, pl) :
                 src \in NamedSources, dst \in NamedDestinations, pl \in NamedPayloads}
        \cup {<<97, 10>> \o STR_fooBar1, <<195, 10, 98, 10>>, <<169, 10, 98, 10>>}

InitParse ==
    /\ InitObject
    /\ charIsSigned = FALSE
    /\ sender = NoSender
    /\ todo = {}
    /\ pending = <<>>
    /\ parseInput \in ParseInputs
    /\ parseResult = None

Decode ==
    /\ parseResult = None
    /\ parseResult' = Some(fromBytes(parseInput))
    /\ UNCHANGED <<m_lastMessageCounter, m_messageBytes, m_numReceivedMessageBytes,
                   extAppMsgIFace, crashed, heapCorrupt, numInitialised, uninitRead,
                   charIsSigned, outcome, sender, todo, pending, parseInput>>

NextParse == Decode

SpecParse == InitParse /\ [][NextParse]_vars

(***************************************************************************)
(* Sender runs: a sender that follows the protocol of lines 14-36 sends one *)
(* or two messages, each split into chunks that carry the message's        *)
(* counter; it may give up a message part-way and go on to the next one.   *)
(***************************************************************************)
Zeros(n) == [i \in 1..n |-> 0]

\* A message: source and destination strings, and a payload that is
\* msg.payload followed by msg.padding zero bytes.
FullPayload(msg) == msg.payload \o Zeros(msg.padding)

MessageBytes(msg) == Frame(msg.source, msg.destination, FullPayload(msg))

ShortMessages ==
    {msg \in [source : {<<97>>, <<97, 46>>}, destination : {<<98>>, <<99>>},
              payload : {<<>>, <<10>>, <<255>>}, padding : {0}] :
        Len(MessageBytes(msg)) <= MaxMsgLen}

\* "a" to "interfaces"; "com.example.App" to "fooBar1"; and a message of 65536
\* bytes, the largest the header can describe.
LongMessages ==
    {[source |-> <<97>>, destination |-> STR_interfaces, payload |-> <<>>, padding |-> 0],
     [source |-> STR_com_example_App, destination |-> STR_fooBar1,
      payload |-> <<10, 255>>, padding |-> 0],
     [source |-> <<97>>, destination |-> <<98>>, payload |-> <<>>, padding |-> 65532]}

SenderMessages == ShortMessages \cup LongMessages

\* The chunks (offset and body length) that the cut points split n bytes into.
ChunksFromCuts(n, cuts) ==
    LET points == cuts \cup {0, n}
    IN {[offset |-> a,
         length |-> (CHOOSE b \in points : b > a /\ \A x \in points : x > a => b <= x) - a] :
           a \in points \ {n}}

\* Every split of a short message; a long one is split into 1..3 chunks of
\* equal size (the last one shorter).
CutSets(n) ==
    IF n <= MaxMsgLen THEN SUBSET (1..(n - 1))
    ELSE {{i * ((n + k - 1) \div k) : i \in 1..(k - 1)} \cap (1..(n - 1)) : k \in 1..3}

Chunkings(n) == {ChunksFromCuts(n, cuts) : cuts \in CutSets(n)}

\* The chunk on the wire: counter, offset (little endian), size - 1 (little
\* endian), body.
encodeChunk(counter, offset, size, body) ==
    <<counter, offset % 256, (offset \div 256) % 256,
      (size - 1) % 256, ((size - 1) \div 256) % 256>> \o body

StartCounters == {4, 254}

InitSender ==
    /\ InitObject
    /\ charIsSigned \in BOOLEAN
    /\ sender \in {[NoSender EXCEPT !.counter = c] : c \in StartCounters}
    /\ todo = {}
    /\ pending \in UNION {[1..k -> SenderMessages] : k \in 1..2}
    /\ parseInput = <<>>
    /\ parseResult = None

\* The sender turns to its next message, with the next counter value: at the
\* start, after the last chunk of a message, or leaving a message unfinished.
Begin ==
    /\ pending # <<>>
    /\ ~crashed /\ ~heapCorrupt
    /\ ~sender.active \/ todo = {} \/ sender.sent > 0
    /\ \E chunks \in Chunkings(Len(MessageBytes(Head(pending)))) :
          /\ sender' = [active |-> TRUE,
                        counter |-> (sender.counter + 1) % 256,
                        msg |-> Some(Head(pending)),
                        chunks |-> chunks,
                        sent |-> 0,
                        inOrder |-> TRUE,
                        afterAbandoned |-> sender.active /\ todo # {}]
          /\ todo' = chunks
    /\ pending' = Tail(pending)
    /\ UNCHANGED <<m_lastMessageCounter, m_messageBytes, m_numReceivedMessageBytes,
                   extAppMsgIFace, crashed, heapCorrupt, numInitialised, uninitRead,
                   charIsSigned, outcome, parseInput, parseResult>>

\* The sender submits one of the chunks it has not sent yet.
Submit ==
    /\ sender.active
    /\ \E c \in todo :
          LET bytes == MessageBytes(sender.msg[1])
          IN /\ WriteValue(encodeChunk(sender.counter, c.offset, Len(bytes),
                                       SubSeq(bytes, c.offset + 1, c.offset + c.length)))
             /\ todo' = todo \ {c}
             /\ sender' = [sender EXCEPT
                              !.sent = @ + 1,
                              !.inOrder = @ /\ \A d \in todo : c.offset <= d.offset]
    /\ UNCHANGED <<pending, parseInput, parseResult>>

NextSender == Begin \/ Submit

SpecSender == InitSender /\ [][NextSender]_vars

(***************************************************************************)
(* Header runs: the header decoding of WriteValue applied to one chunk     *)
(* header, on a build whose plain char is unsigned and on one where it is  *)
(* signed.                                                                 *)
(***************************************************************************)
HeaderBytes == {0, 1, 127, 128, 255}

HeaderInputs ==
    {<<0, b1, b2, b3, b4>> :
        b1 \in HeaderBytes, b2 \in HeaderBytes, b3 \in HeaderBytes, b4 \in HeaderBytes}

InitHeader ==
    /\ InitObject
    /\ charIsSigned \in BOOLEAN
    /\ sender = NoSender
    /\ todo = {}
    /\ pending = <<>>
    /\ parseInput \in HeaderInputs
    /\ parseResult = None

\* The values WriteValue computes from the header: chunkOffset, messageSize,
\* and the 16-bit value messageSize is one more than.
DecodeHeader ==
    /\ parseResult = None
    /\ parseResult' =
          Some([chunkOffset |-> decodeChunkOffset(parseInput, charIsSigned),
                encodedMessageSize |->
                    headerWord(parseInput[4], parseInput[5], charIsSigned) % 65536,
                messageSize |-> decodeMessageSize(parseInput, charIsSigned)])
    /\ UNCHANGED <<m_lastMessageCounter, m_messageBytes, m_numReceivedMessageBytes,
                   extAppMsgIFace, crashed, heapCorrupt, numInitialised, uninitRead,
                   charIsSigned, outcome, sender, todo, pending, parseInput>>

NextHeader == DecodeHeader

SpecHeader == InitHeader /\ [][NextHeader]_vars

(***************************************************************************)
(* Frame runs: one buffer arrives whole, as the only chunk of a message.   *)
(***************************************************************************)
FrameInputs == ParseInputs \ {<<>>}

InitFrame ==
    /\ InitObject
    /\ charIsSigned \in BOOLEAN
    /\ sender = NoSender
    /\ todo = {}
    /\ pending = <<>>
    /\ parseInput \in FrameInputs
    /\ parseResult = None

SubmitFrame ==
    /\ outcome.path = "none"
    /\ WriteValue(encodeChunk(0, 0, Len(parseInput), parseInput))
    /\ UNCHANGED <<sender, todo, pending, parseInput, parseResult>>

NextFrame == SubmitFrame

SpecFrame == InitFrame /\ [][NextFrame]_vars

(***************************************************************************)
(* Properties of the free runs.                                            *)
(***************************************************************************)
Cleared ==
    /\ m_lastMessageCounter = None
    /\ m_messageBytes = <<>>
    /\ m_numReceivedMessageBytes = 0

\* C3: a chunk whose offset plus body length exceeds the declared message size
\* is rejected: nothing is written, the process neither aborts nor overruns
\* the buffer, no message is processed and the reassembly state is reset.
C3_BoundsViolationIsRejected ==
    outcome.boundsViolated =>
        /\ ~crashed
        /\ ~heapCorrupt
        /\ outcome.processed = None
        /\ Cleared

\* C4: when a chunk brings the byte count up to the message size, the
\* reassembly state is cleared when WriteValue returns, whether the buffer
\* decoded, failed to decode, or the router reported an error.
C4_CompletionClearsState ==
    (outcome.completed /\ ~outcome.boundsViolated) => Cleared

\* C6: a chunk shorter than 5 bytes is rejected without reading a header and
\* without calling the parser or the router; afterwards the reassembly state is
\* cleared whatever it was before, and the object goes on accepting chunks.
C6_UndersizedChunkClearsState ==
    outcome.path = "undersized" =>
        /\ Cleared
        /\ ~outcome.isNewMessage
        /\ outcome.processed = None
        /\ outcome.call = None
        /\ ~crashed
        /\ ~heapCorrupt

C6_Witness ==
    /\ outcome.path = "undersized"
    /\ outcome.priorInProgress

(***************************************************************************)
(* Properties of the parser.                                               *)
(***************************************************************************)
NewlinePositions(bytes) == {i \in 1..Len(bytes) : bytes[i] = NL}

\* The position of the k-th newline of a buffer that has at least k of them.
NthNewline(bytes, k) ==
    CHOOSE i \in NewlinePositions(bytes) :
        Cardinality({j \in NewlinePositions(bytes) : j <= i}) = k

HasFrame(bytes) == Cardinality(NewlinePositions(bytes)) >= 2

\* The first field: everything before the first newline (the whole buffer if
\* there is none).
SourceField(bytes) ==
    IF NewlinePositions(bytes) = {} THEN bytes
    ELSE SubSeq(bytes, 1, NthNewline(bytes, 1) - 1)

\* The second field of a buffer with at least one newline.
DestinationField(bytes) ==
    IF HasFrame(bytes)
    THEN SubSeq(bytes, NthNewline(bytes, 1) + 1, NthNewline(bytes, 2) - 1)
    ELSE SubSeq(bytes, NthNewline(bytes, 1) + 1, Len(bytes))

PayloadField(bytes) == SubSeq(bytes, NthNewline(bytes, 2) + 1, Len(bytes))

\* Letters and digits among the characters the parser runs use.
IsLetter(ch) == ch \in (65..90) \cup (97..122) \cup {233}
IsDigit(ch) == ch \in 48..57

SourceFieldValid(bytes) ==
    LET str == fromUtf8(SourceField(bytes))
    IN \A i \in 1..Len(str) : IsLetter(str[i]) \/ IsDigit(str[i]) \/ str[i] = DOT

DestinationFieldValid(bytes) ==
    LET str == fromUtf8(DestinationField(bytes))
    IN \A i \in 1..Len(str) : IsLetter(str[i]) \/ IsDigit(str[i])

DestinationFieldReserved(bytes) ==
    LET field == DestinationField(bytes)
    IN /\ Len(field) >= 10
       /\ SubSeq(field, 1, 10) = STR_interfaces

Decoded == parseResult # None

\* C8: a successfully decoded frame has a non-empty source and a non-empty
\* destination.
C8_DecodedFieldsNonEmpty ==
    (Decoded /\ parseResult[1].ok) =>
        /\ parseResult[1].m_source # <<>>
        /\ parseResult[1].m_destination # <<>>

\* C9: decoding fails when the source has a character that is not a letter, a
\* digit or '.', when the destination has a character that is not a letter or
\* a digit, and when the destination begins with "interfaces"; a frame whose
\* fields pass these checks decodes.
C9_FieldValidation ==
    Decoded =>
        /\ ~SourceFieldValid(parseInput) => ~parseResult[1].ok
        /\ (NewlinePositions(parseInput) # {} /\ ~DestinationFieldValid(parseInput))
               => ~parseResult[1].ok
        /\ (NewlinePositions(parseInput) # {} /\ DestinationFieldReserved(parseInput))
               => ~parseResult[1].ok
        /\ (/\ HasFrame(parseInput)
            /\ SourceFieldValid(parseInput)
            /\ DestinationFieldValid(parseInput)
            /\ ~DestinationFieldReserved(parseInput)) => parseResult[1].ok

C9_Witness ==
    /\ Decoded
    /\ parseInput = Frame(STR_com_example_App, STR_foo_bar, <<>>)
    /\ parseResult[1].error = "destination"

\* C10: on success the source is the bytes before the first newline, the
\* destination the bytes between the first and the second newline, and the
\* payload all the bytes after the second newline, later newlines included;
\* "a\nb\n" decodes to source "a", destination "b" and an empty payload.
C10_PayloadFraming ==
    Decoded =>
        /\ parseResult[1].ok =>
              /\ HasFrame(parseInput)
              /\ encodeUtf8(parseResult[1].m_source) = SourceField(parseInput)
              /\ encodeUtf8(parseResult[1].m_destination) = DestinationField(parseInput)
              /\ parseResult[1].m_payload = PayloadField(parseInput)
        /\ parseInput = <<97, 10, 98, 10>> =>
              /\ parseResult[1].ok
              /\ parseResult[1].m_source = <<97>>
              /\ parseResult[1].m_destination = <<98>>
              /\ parseResult[1].m_payload = <<>>

C10_Witness ==
    /\ Decoded
    /\ parseResult[1].ok
    /\ parseInput = Frame(<<97>>, <<98>>, <<10, 0, 255, 10>>)
    /\ parseResult[1].m_payload = <<10, 0, 255, 10>>

(***************************************************************************)
(* Properties of the sender runs.                                          *)
(***************************************************************************)

\* The message the sender is sending, once it has submitted a chunk of it.
Sending == sender.active /\ sender.sent > 0

CurrentMessage == sender.msg[1]

CurrentBytes == MessageBytes(CurrentMessage)

\* The chunks of the current message submitted so far.
Submitted == sender.chunks \ todo

SubmittedLength(chunks) ==
    LET RECURSIVE Sum(_)
        Sum(S) == IF S = {} THEN 0
                  ELSE LET c == CHOOSE c \in S : TRUE IN c.length + Sum(S \ {c})
    IN Sum(chunks)

Covered(i) == \E c \in Submitted : i > c.offset /\ i <= c.offset + c.length

\* C1: a message whose fields satisfy the character rules (here: every message
\* of the sender runs whose destination is not reserved), split into chunks of
\* at least one body byte and submitted in ascending order, is handed to the
\* router exactly once, by its last chunk and by no earlier one, with its own
\* source and payload.
C1_RoundTrip ==
    (/\ Sending
     /\ sender.inOrder
     /\ ~sender.afterAbandoned
     /\ ~startsWith(CurrentMessage.destination, STR_interfaces)) =>
        IF todo # {}
        THEN ~crashed /\ ~heapCorrupt /\ outcome.call = None
        ELSE /\ outcome.call # None
             /\ outcome.call[1].source = CurrentMessage.source
             /\ outcome.call[1].payload = FullPayload(CurrentMessage)

\* C2: the first chunk of a message B that arrives while a message A with
\* another counter is incomplete discards what A left: afterwards the counter
\* is B's, the byte count is the number of body bytes of B's chunks, every byte
\* of the buffer is either one that a chunk of B wrote or unwritten, and the
\* buffer that is processed when B completes holds B's bytes only.
C2_InterruptionDiscardsPartialMessage ==
    (Sending /\ sender.afterAbandoned) =>
        /\ (outcome.path \in {"stored", "aborted"}) =>
              /\ m_lastMessageCounter = Some(sender.counter)
              /\ m_numReceivedMessageBytes = SubmittedLength(Submitted)
              /\ \A i \in 1..Len(m_messageBytes) :
                    m_messageBytes[i] = IF Covered(i) THEN CurrentBytes[i] ELSE UNINIT
        /\ (outcome.processed # None) =>
              \A i \in 1..Len(outcome.processed[1]) :
                  outcome.processed[1][i] = CurrentBytes[i]

C2_Witness ==
    /\ Sending
    /\ sender.afterAbandoned
    /\ todo = {}
    /\ sender.sent > 1
    /\ outcome.call # None
    /\ outcome.processed = Some(CurrentBytes)

\* C5: a decoded message is handed to the router under the destination decoded
\* from that same message, also when it is not the first message delivered.
C5_DeliveredToOwnDestination ==
    (Sending /\ outcome.call # None) =>
        /\ outcome.destination = Some(CurrentMessage.destination)
        /\ outcome.call[1].service = CurrentMessage.destination

\* C7: chunks that do not overlap and together cover the message, submitted in
\* any order, yield at the last chunk, and not before, the buffer that
\* submitting them in ascending order yields: the message itself.
C7_AnyOrderSameBuffer ==
    (/\ Sending
     /\ ~sender.inOrder
     /\ ~sender.afterAbandoned) =>
        /\ ~crashed
        /\ ~heapCorrupt
        /\ IF todo # {}
           THEN outcome.processed = None
           ELSE outcome.processed = Some(CurrentBytes)

\* C14: a message with counter 0 that follows a message with counter 255 is a
\* message of its own: its first chunk is classified as a new message, and
\* after any of its chunks the counter is 0, the byte count is the number of
\* body bytes of its own chunks and the buffer holds nothing but what its own
\* chunks wrote, whether the message with counter 255 was completed or left
\* unfinished.
C14_CounterWraparound ==
    (Sending /\ sender.counter = 0) =>
        /\ sender.sent = 1 => outcome.isNewMessage
        /\ (outcome.path \in {"stored", "aborted"}) =>
              /\ m_lastMessageCounter = Some(0)
              /\ m_numReceivedMessageBytes = SubmittedLength(Submitted)
              /\ \A i \in 1..Len(m_messageBytes) :
                    m_messageBytes[i] = IF Covered(i) THEN CurrentBytes[i] ELSE UNINIT

C14_Witness ==
    /\ Sending
    /\ sender.counter = 0
    /\ sender.sent = 1
    /\ sender.afterAbandoned
    /\ outcome.path = "stored"
    /\ outcome.priorInProgress
    /\ outcome.isNewMessage
    /\ m_lastMessageCounter = Some(0)

\* C15: when the router answers a call with an error, that call is the only
\* one made for the message: it was made by the message's last chunk, the
\* object is left as cleared as after a delivery without error, and the next
\* chunk to arrive starts a new message with nothing of the old one in place.
C15_DeliveryFailureIsTerminal ==
    [][outcome.replyIsError =>
          /\ outcome.call # None
          /\ sender.sent > 0 => todo = {}
          /\ Cleared
          /\ (sender.sent = 0 /\ sender'.sent = 1) =>
                 (outcome'.isNewMessage /\ ~outcome'.priorInProgress)]_vars

C15_Witness ==
    /\ Sending
    /\ todo = {}
    /\ outcome.replyIsError
    /\ outcome.call # None
    /\ outcome.processed = Some(CurrentBytes)
    /\ pending # <<>>

\* C12: a buffer with fewer than two newlines, whose fields as far as they go
\* pass the character checks, fails to decode as truncated; no buffer decodes
\* unless a second newline ends its destination.
C12_TruncatedFrame ==
    Decoded =>
        /\ (/\ ~HasFrame(parseInput)
            /\ SourceFieldValid(parseInput)
            /\ NewlinePositions(parseInput) # {} =>
                   /\ DestinationFieldValid(parseInput)
                   /\ ~DestinationFieldReserved(parseInput))
               => (~parseResult[1].ok /\ parseResult[1].error = "truncated")
        /\ parseResult[1].ok => HasFrame(parseInput)

C12_Witness ==
    /\ Decoded
    /\ parseInput = <<97, 10>> \o STR_fooBar1
    /\ ~parseResult[1].ok
    /\ parseResult[1].error = "truncated"

(***************************************************************************)
(* Properties of the header decoding.                                      *)
(***************************************************************************)
HeaderDecoded == parseResult # None

\* C13: for every encoded size in 0..65535 the messageSize that WriteValue
\* uses is the encoded size plus one, so it lies in 1..65536 and is never 0;
\* the encoded size 65535 gives messageSize 65536.  (Stated for the build with
\* an unsigned plain char, where the two header bytes are read as they are.)
C13_MessageSizeIsEncodedPlusOne ==
    (HeaderDecoded /\ ~charIsSigned) =>
        /\ parseResult[1].messageSize = parseInput[4] + 256 * parseInput[5] + 1
        /\ parseResult[1].messageSize \in 1..65536

\* C18: the header is decoded as two 16-bit little-endian values whatever the
\* bytes are: chunkOffset is b1 + 256*b2 and the encoded message size is
\* b3 + 256*b4, also when the low byte b1 or b3 is 128 or more.
C18_HeaderIsLittleEndian ==
    HeaderDecoded =>
        /\ parseResult[1].chunkOffset = parseInput[2] + 256 * parseInput[3]
        /\ parseResult[1].encodedMessageSize = parseInput[4] + 256 * parseInput[5]

(***************************************************************************)
(* Properties of whole frames.                                             *)
(***************************************************************************)
\* A buffer the decoder is specified to accept: two newlines, a source of
\* letters, digits and dots, a destination of letters and digits that does
\* not begin with "interfaces".
WellFormedFrame(bytes) ==
    /\ HasFrame(bytes)
    /\ SourceFieldValid(bytes)
    /\ DestinationFieldValid(bytes)
    /\ ~DestinationFieldReserved(bytes)

\* C11: the router is called only for a buffer that decodes; a buffer with an
\* invalid source, an invalid destination, a reserved destination or a
\* truncated frame causes no router call at all.
C11_NoPartialForwarding ==
    outcome.path # "none" =>
        /\ outcome.processed = Some(parseInput)
        /\ outcome.call # None => WellFormedFrame(parseInput)
        /\ ~WellFormedFrame(parseInput) =>
              /\ outcome.path = "decodeFailed"
              /\ outcome.call = None
              /\ outcome.destination = None
              /\ extAppMsgIFace = None

C11_Witness ==
    /\ outcome.path = "decodeFailed"
    /\ parseInput = Frame(<<97>>, STR_interfacesFoo, <<10, 0, 255, 10>>)
    /\ outcome.call = None

(***************************************************************************)
(* Properties of the reassembler's bookkeeping.                            *)
(***************************************************************************)
\* The positions where the buffer after a step differs from the buffer before
\* it as resized: cut to the new length, or extended by unwritten bytes.
Rewritten ==
    {i \in 1..Len(m_messageBytes') :
        m_messageBytes'[i] # (IF i <= Len(m_messageBytes) THEN m_messageBytes[i] ELSE UNINIT)}

C19_CountSetBeforeUse ==
    /\ ~uninitRead
    /\ outcome.path # "none" => numInitialised

\* The first chunk of a message arrives with nothing in progress and no
\* message delivered yet; the count is its body length.
C19_Witness ==
    /\ outcome.path = "stored"
    /\ outcome.isNewMessage
    /\ ~outcome.priorInProgress
    /\ extAppMsgIFace = None
    /\ numInitialised
    /\ outcome.received = 1
    /\ m_numReceivedMessageBytes = 1

\* C20: the counter, the buffer and the byte count are reset together: after
\* any call of WriteValue, when no counter is stored the buffer is empty and
\* the byte count is 0.
C20_ResetTogether ==
    (outcome.path # "none" /\ m_lastMessageCounter = None) =>
        /\ m_messageBytes = <<>>
        /\ m_numReceivedMessageBytes = 0

\* A message of three counted bytes was delivered by a chunk that continued
\* it, and nothing of it is left.
C20_Witness ==
    /\ outcome.path = "delivered"
    /\ outcome.priorInProgress
    /\ ~outcome.isNewMessage
    /\ outcome.received = 3
    /\ m_lastMessageCounter = None
    /\ m_messageBytes = <<>>
    /\ m_numReceivedMessageBytes = 0

====
